---- MODULE Spec2Model ----
(***************************************************************************)
(* A model of data_loader.py: the OPTDataLoader facade over one CSV file   *)
(* per year, its sequential and process-pool multi-year loads, its lazy    *)
(* chunk generator and the quick_load entry point.                         *)
(*                                                                         *)
(* A table is the sequence of its rows; a row is <<year, i>>, the i-th     *)
(* data row of that year's file.  Column projection and dtype hints are    *)
(* handed unchanged to every read and do not select rows, so they are not  *)
(* part of the state.                                                      *)
(***************************************************************************)
EXTENDS Integers, Sequences, FiniteSets, Bags, TLC

\* ------------------------------------------------------------- bounds
MaxRows == 2      \* data rows in a year file of a multi-year load: 0..MaxRows
MaxIterRows == 3  \* data rows in a year file read in chunks: 0..MaxIterRows
MaxYears == 2     \* length of a requested list of years: 0..MaxYears
MaxCpu == 2       \* mp.cpu_count(): 1..MaxCpu
MaxChunk == 2     \* chunksize of iter_year_chunks: 1..MaxChunk

\* ------------------------------------------------------------- file names
\* The years a caller asks for.
Years == {2020, 2021}

\* A file matching the glob cleaned_*_all.csv is named by the tokens that
\* f.stem.split('_') puts between "cleaned" and "all".
Names == { <<"2020">>, <<"2021">>, <<"2021", "v2">>, <<"02021">>, <<"abc">> }

\* f"{year}": the decimal text of a year.
FormatYear(year) ==
    CASE year = 2020 -> "2020"
      [] year = 2021 -> "2021"

\* int(token) succeeds.
IsInt(token) == token \in {"2020", "2021", "02021"}

\* int(token), for a token it accepts.
IntOf(token) ==
    CASE token = "2020" -> 2020
      [] token = "2021" -> 2021
      [] token = "02021" -> 2021

\* self.data_dir / f"cleaned_{year}_all.csv"
YearFileName(year) == << FormatYear(year) >>

NoFile == [present |-> FALSE, ok |-> TRUE, n |-> 0]

\* What a file can hold: n data rows under a header (ok), or text that no
\* read_csv call accepts, such as an empty file (not ok).
FilesUpTo(max) ==
    { [present |-> TRUE, ok |-> TRUE, n |-> k] : k \in 0..max }
        \cup { [present |-> TRUE, ok |-> FALSE, n |-> 0] }

VARIABLES
    fs,               \* the data directory: file name -> file
    cpu_count,        \* mp.cpu_count()
    available_years,  \* self.available_years of the loader in use
    scanned,          \* history: the names the directory held when that loader was built
    pc,               \* where the caller's current call stands
    call,             \* the current call: operation and arguments
    path,             \* history: the branch load_years took: "seq", "par" or "none"
    jobs,             \* the futures of the process pool, in submit order
    finished,         \* job indices in the order the jobs finished
    early,            \* the jobs already finished when as_completed was called
    yielded,          \* job indices in the order as_completed yielded them
    dfs,              \* the list dfs of the parallel load
    err,              \* the exception propagating out of the `with` block
    errlog,           \* years printed as "Error loading year ..."
    result,           \* what the call returned or raised
    gens              \* the generator objects iter_year_chunks returned

vars == << fs, cpu_count, available_years, scanned, pc, call, path, jobs,
           finished, early, yielded, dfs, err, errlog, result, gens >>

loadVars == << path, jobs, finished, early, yielded, dfs, err, errlog >>

\* ------------------------------------------------------------- helpers
Min(a, b) == IF a < b THEN a ELSE b

Range(s) == { s[i] : i \in 1..Len(s) }

RECURSIVE Concat(_)
\* pd.concat(dfs, ignore_index=True) on a non-empty list: the rows in list order.
Concat(tables) ==
    IF tables = << >> THEN << >> ELSE Head(tables) \o Concat(Tail(tables))

RECURSIVE SeqToBag(_)
SeqToBag(s) ==
    IF s = << >> THEN EmptyBag ELSE SetToBag({Head(s)}) (+) SeqToBag(Tail(s))

DirNames == { nm \in Names : fs[nm].present }

\* ------------------------------------------------------------- outcomes
NoResult == [kind |-> "none", rows |-> << >>, err |-> "", ctx |-> << >>]

\* A call returned the table with these rows.
Table(rows) == [kind |-> "table", rows |-> rows, err |-> "", ctx |-> << >>]

\* get_column_names returned the header.
Columns == [kind |-> "columns", rows |-> << >>, err |-> "", ctx |-> << >>]

\* A call raised e; ctx is the list of years its message prints, if any.
Raised(e, ctx) == [kind |-> "raised", rows |-> << >>, err |-> e, ctx |-> ctx]

NoCall ==
    [op |-> "none", via |-> "direct", spec |-> "none", dirOk |-> TRUE,
     year |-> 0, years |-> << >>, parallel |-> FALSE, filter |-> "none"]

\* ------------------------------------------------------------- filters
\* filter_func: None, a module-level function, or a lambda computing the same
\* row subset.  Both keep the odd-numbered rows.
Filters == {"none", "named", "lambda"}

FilterKeeps(f, row) == f = "none" \/ row[2] % 2 = 1

\* df = filter_func(df), when filter_func is not None
ApplyFilter(f, rows) == SelectSeq(rows, LAMBDA r : FilterKeeps(f, r))

\* Whether the arguments of executor.submit pickle: a lambda does not.
Transferable(f) == f # "lambda"

\* ------------------------------------------------------------- the loader
RECURSIVE SortedYears(_)
\* sorted(years) of the years parsed from the file names in S.
SortedYears(S) ==
    IF S = {} THEN << >>
    ELSE LET nm == CHOOSE a \in S : \A b \in S : IntOf(a[1]) <= IntOf(b[1])
         IN  << IntOf(nm[1]) >> \o SortedYears(S \ {nm})

\* _get_available_years over the names the glob returns: the second token of
\* each stem parsed as an integer, names that do not parse skipped.
GetAvailableYears(names) == SortedYears({ nm \in names : IsInt(nm[1]) })

\* Variant: the year is looked up in the cached list instead of on disk.
CachedExistsMutant(year) == year \in Range(available_years)

\* file_path.exists() for the year's file
FileExists(year) == fs[YearFileName(year)].present

\* _get_file_path of a loader whose available_years is avail: the path, or a
\* FileNotFoundError whose message prints avail.
GetFilePath(year, avail) ==
    IF FileExists(year)
    THEN [ok |-> TRUE, exc |-> NoResult]
    ELSE [ok |-> FALSE, exc |-> Raised("FileNotFound", avail)]

\* The data rows of a year's file, in file order.
Rows(year) == [i \in 1..fs[YearFileName(year)].n |-> << year, i >>]

\* pd.read_csv of a whole file: its rows, or a parse error.
ReadCsv(year) ==
    IF fs[YearFileName(year)].ok
    THEN Table(Rows(year))
    ELSE Raised("ParseOrTypeError", << >>)

\* load_year(year, filter_func=f)
LoadYearOutcome(year, f, avail) ==
    LET p == GetFilePath(year, avail) IN
    IF ~p.ok THEN p.exc
    ELSE LET df == ReadCsv(year) IN
         IF df.kind = "raised" THEN df ELSE Table(ApplyFilter(f, df.rows))

\* get_column_names(year); year = 0 stands for None.
GetColumnNamesOutcome(year, avail) ==
    IF year = 0 /\ avail = << >>
    THEN Raised("IndexError", << >>)
    ELSE LET y == IF year = 0 THEN avail[Len(avail)] ELSE year
             p == GetFilePath(y, avail)
         IN  IF ~p.ok THEN p.exc
             ELSE IF ~fs[YearFileName(y)].ok THEN Raised("ParseOrTypeError", << >>)
             ELSE Columns

\* ------------------------------------------------------------- atomic calls
Idle == pc = "idle"

\* OPTDataLoader(data_dir) on an existing directory.
Construct ==
    /\ Idle
    /\ available_years' = GetAvailableYears(DirNames)
    /\ scanned' = DirNames
    /\ UNCHANGED << fs, cpu_count, pc, call, result, gens >>
    /\ UNCHANGED loadVars

\* loader.load_year(year, filter_func=f)
LoadYear(year, f) ==
    /\ Idle
    /\ call' = [NoCall EXCEPT !.op = "load_year", !.year = year, !.filter = f]
    /\ result' = LoadYearOutcome(year, f, available_years)
    /\ pc' = "done"
    /\ UNCHANGED << fs, cpu_count, available_years, scanned, gens >>
    /\ UNCHANGED loadVars

\* loader.get_column_names(year)
GetColumnNames(year) ==
    /\ Idle
    /\ call' = [NoCall EXCEPT !.op = "get_column_names", !.year = year]
    /\ result' = GetColumnNamesOutcome(year, available_years)
    /\ pc' = "done"
    /\ UNCHANGED << fs, cpu_count, available_years, scanned, gens >>
    /\ UNCHANGED loadVars

\* The caller has the outcome; the loader keeps nothing of the call.
Return ==
    /\ pc = "done"
    /\ pc' = "idle"
    /\ call' = NoCall
    /\ result' = NoResult
    /\ path' = "none"
    /\ jobs' = << >>
    /\ finished' = << >>
    /\ early' = {}
    /\ yielded' = << >>
    /\ dfs' = << >>
    /\ err' = NoResult
    /\ errlog' = << >>
    /\ UNCHANGED << fs, cpu_count, available_years, scanned, gens >>

\* ------------------------------------------------------------- load_years
\* The lists of years a caller passes.
YearLists == UNION { [1..n -> Years] : n \in 0..MaxYears }

\* if parallel and len(years) > 1
UseParallel(parallel, years) == parallel /\ Len(years) > 1

\* Variant: concatenating nothing gives an empty table.
EmptyConcatMutant(tables) == Table(Concat(tables))

\* pd.concat(dfs, ignore_index=True): an empty list is a ValueError.
ConcatOutcome(tables) ==
    IF tables = << >>
    THEN Raised("NoObjectsToConcatenate", << >>)
    ELSE Table(Concat(tables))

RECURSIVE SeqLoad(_, _, _, _)
\* The sequential branch of load_years: load_year for each year in request
\* order, the first exception ending the call, then the concatenation.
SeqLoad(years, f, avail, acc) ==
    IF years = << >> THEN ConcatOutcome(acc)
    ELSE LET df == LoadYearOutcome(Head(years), f, avail) IN
         IF df.kind = "raised" THEN df
         ELSE SeqLoad(Tail(years), f, avail, Append(acc, df.rows))

\* Variant: the pool is sized by the list alone.
UncappedWorkersMutant(years) == Len(years)

\* max_workers = min(len(years), mp.cpu_count())
MaxWorkers(years) == Min(Len(years), cpu_count)

\* The number of jobs the dict comprehension submits: all of them, or those
\* before the first year whose _get_file_path raises.
Submitted(years) ==
    IF \A i \in 1..Len(years) : FileExists(years[i]) THEN Len(years)
    ELSE (CHOOSE i \in 1..Len(years) :
              /\ ~FileExists(years[i])
              /\ \A k \in 1..(i - 1) : FileExists(years[k])) - 1

\* executor.submit(_load_year_worker, path, year, ...): one future per
\* position of the list.
NewJob(year) == [year |-> year, st |-> "queued", out |-> NoResult]

\* load_years of a loader whose available_years is avail, for the call c.
StartLoadYears(c, avail) ==
    /\ call' = c
    /\ finished' = << >>
    /\ early' = {}
    /\ yielded' = << >>
    /\ dfs' = << >>
    /\ errlog' = << >>
    /\ IF UseParallel(c.parallel, c.years)
       THEN LET k == Submitted(c.years) IN
            /\ path' = "par"
            /\ jobs' = [j \in 1..k |-> NewJob(c.years[j])]
            /\ result' = NoResult
            /\ IF k < Len(c.years)
               THEN /\ err' = GetFilePath(c.years[k + 1], avail).exc
                    /\ pc' = "shutdown"
               ELSE /\ err' = NoResult
                    /\ pc' = "submitted"
       ELSE /\ path' = "seq"
            /\ jobs' = << >>
            /\ err' = NoResult
            /\ result' = SeqLoad(c.years, c.filter, avail, << >>)
            /\ pc' = "done"

\* loader.load_years(years, filter_func=f, parallel=parallel)
LoadYears(years, parallel, f) ==
    /\ Idle
    /\ StartLoadYears([NoCall EXCEPT !.op = "load_years", !.years = years,
                                     !.parallel = parallel, !.filter = f],
                      available_years)
    /\ UNCHANGED << fs, cpu_count, available_years, scanned, gens >>

\* loader.load_all(filter_func=f, parallel=parallel)
LoadAll(parallel, f) ==
    /\ Idle
    /\ StartLoadYears([NoCall EXCEPT !.op = "load_all", !.years = available_years,
                                     !.parallel = parallel, !.filter = f],
                      available_years)
    /\ UNCHANGED << fs, cpu_count, available_years, scanned, gens >>

\* ------------------------------------------------------------- the pool
InPool == pc \in {"submitted", "collect", "shutdown"}

Running == { j \in 1..Len(jobs) : jobs[j].st = "running" }

Unfinished == { j \in 1..Len(jobs) : jobs[j].st \in {"queued", "running"} }

\* The pool hands out work in submit order.
NextQueued(j) ==
    /\ j \in 1..Len(jobs)
    /\ jobs[j].st = "queued"
    /\ \A k \in 1..(j - 1) : jobs[k].st # "queued"

\* Variant: the worker forgets the filter.
UnfilteredWorkerMutant(year, f) == ReadCsv(year)

\* _load_year_worker(file_path, year, columns, filter_func, dtype)
WorkerOutcome(year, f) ==
    LET df == ReadCsv(year) IN
    IF df.kind = "raised" THEN df ELSE Table(ApplyFilter(f, df.rows))

\* A work item whose arguments do not pickle never reaches a worker: its
\* future gets the pickling error.
FeedFail(j) ==
    /\ InPool
    /\ NextQueued(j)
    /\ ~Transferable(call.filter)
    /\ jobs' = [jobs EXCEPT ![j].st = "done",
                            ![j].out = Raised("PicklingError", << >>)]
    /\ finished' = Append(finished, j)
    /\ UNCHANGED << fs, cpu_count, available_years, scanned, pc, call, path,
                    early, yielded, dfs, err, errlog, result, gens >>

\* A free worker process takes the next work item.
WorkerStart(j) ==
    /\ InPool
    /\ NextQueued(j)
    /\ Transferable(call.filter)
    /\ Cardinality(Running) < MaxWorkers(call.years)
    /\ jobs' = [jobs EXCEPT ![j].st = "running"]
    /\ UNCHANGED << fs, cpu_count, available_years, scanned, pc, call, path,
                    finished, early, yielded, dfs, err, errlog, result, gens >>

\* A worker returns its table or raises; the future is done.
WorkerFinish(j) ==
    /\ InPool
    /\ j \in Running
    /\ jobs' = [jobs EXCEPT ![j].st = "done",
                            ![j].out = WorkerOutcome(jobs[j].year, call.filter)]
    /\ finished' = Append(finished, j)
    /\ UNCHANGED << fs, cpu_count, available_years, scanned, pc, call, path,
                    early, yielded, dfs, err, errlog, result, gens >>

\* as_completed(future_to_year) is entered: the futures already done are put
\* aside, to be yielded first.
AsCompleted ==
    /\ pc = "submitted"
    /\ early' = Range(finished)
    /\ pc' = "collect"
    /\ UNCHANGED << fs, cpu_count, available_years, scanned, call, path, jobs,
                    finished, yielded, dfs, err, errlog, result, gens >>

\* Variant: the futures are waited for in submit order.
SubmitOrderMutant(j) ==
    /\ j = Len(yielded) + 1
    /\ j \in Range(finished)

\* The future as_completed may yield next: any of those done before it was
\* entered (they are kept in a set), then the others as they finish.
MayYield(j) ==
    LET left == early \ Range(yielded) IN
    IF left # {} THEN j \in left
    ELSE /\ j \in Range(finished) \ Range(yielded)
         /\ \A i, k \in 1..Len(finished) :
                (finished[k] = j /\ i < k) => finished[i] \in Range(yielded)

\* Variant: the except clause reports and goes on.
SwallowErrorMutant(j) ==
    /\ errlog' = Append(errlog, jobs[j].year)
    /\ err' = err
    /\ dfs' = dfs
    /\ pc' = IF Len(yielded) + 1 = Len(jobs) THEN "shutdown" ELSE "collect"

\* except Exception as e: print(...); raise
OnWorkerError(j) ==
    /\ errlog' = Append(errlog, jobs[j].year)
    /\ err' = jobs[j].out
    /\ dfs' = dfs
    /\ pc' = "shutdown"

\* One turn of the loop over as_completed: df = future.result(), appended to
\* dfs, or the worker's exception, reported and raised again.
Collect(j) ==
    /\ pc = "collect"
    /\ MayYield(j)
    /\ yielded' = Append(yielded, j)
    /\ IF jobs[j].out.kind = "raised"
       THEN OnWorkerError(j)
       ELSE /\ dfs' = Append(dfs, jobs[j].out.rows)
            /\ UNCHANGED << err, errlog >>
            /\ pc' = IF Len(yielded) + 1 = Len(jobs) THEN "shutdown" ELSE "collect"
    /\ UNCHANGED << fs, cpu_count, available_years, scanned, call, path, jobs,
                    finished, early, result, gens >>

\* Variant: the pool is shut down without waiting.
NoWaitMutant == TRUE

\* Leaving the `with` block is executor.shutdown(wait=True): it returns when
\* no submitted job is left.
ShutdownReady == Unfinished = {}

\* The `with` block is left: the pending exception goes to the caller, or the
\* tables collected are concatenated and returned.
Shutdown ==
    /\ pc = "shutdown"
    /\ ShutdownReady
    /\ result' = IF err.kind = "raised" THEN err ELSE ConcatOutcome(dfs)
    /\ pc' = "done"
    /\ UNCHANGED << fs, cpu_count, available_years, scanned, call, path, jobs,
                    finished, early, yielded, dfs, err, errlog, gens >>

\* ------------------------------------------------------------- quick_load
\* The shapes of the `years` argument of quick_load.
Shapes == {"all", "int", "list", "float", "str", "none", "tuple"}

\* Variant: a float passes for a year.
FloatAsIntMutant(shape) ==
    IF shape = "all" THEN "load_all"
    ELSE IF shape \in {"int", "float"} THEN "load_year"
    ELSE IF shape = "list" THEN "load_years"
    ELSE "invalid"

\* The if/elif chain of quick_load.
QuickDispatch(shape) ==
    IF shape = "all" THEN "load_all"
    ELSE IF shape = "int" THEN "load_year"
    ELSE IF shape = "list" THEN "load_years"
    ELSE "invalid"

\* quick_load(years, filter_func=f, data_dir=...): shape is the shape of
\* `years`, year and years its value when it is an int or a list, dirOk whether
\* data_dir exists.
QuickLoad(shape, year, years, f, dirOk) ==
    /\ Idle
    /\ LET c == [NoCall EXCEPT !.via = "quick_load", !.spec = shape,
                               !.dirOk = dirOk, !.filter = f]
           avail == GetAvailableYears(DirNames)
           op == QuickDispatch(shape)
       IN  IF ~dirOk
           THEN /\ call' = [c EXCEPT !.op = "construct"]
                /\ result' = Raised("DirectoryNotFound", << >>)
                /\ pc' = "done"
                /\ UNCHANGED << available_years, scanned >>
                /\ UNCHANGED loadVars
           ELSE /\ available_years' = avail
                /\ scanned' = DirNames
                /\ CASE op = "load_all" ->
                          StartLoadYears([c EXCEPT !.op = op, !.years = avail,
                                                   !.parallel = TRUE], avail)
                     [] op = "load_years" ->
                          StartLoadYears([c EXCEPT !.op = op, !.years = years,
                                                   !.parallel = TRUE], avail)
                     [] op = "load_year" ->
                          /\ call' = [c EXCEPT !.op = op, !.year = year]
                          /\ result' = LoadYearOutcome(year, f, avail)
                          /\ pc' = "done"
                          /\ UNCHANGED loadVars
                     [] OTHER ->
                          /\ call' = [c EXCEPT !.op = op]
                          /\ result' = Raised("InvalidArgument", << >>)
                          /\ pc' = "done"
                          /\ UNCHANGED loadVars
    /\ UNCHANGED << fs, cpu_count, gens >>

\* ------------------------------------------------------------- iter_year_chunks
\* The generator objects the caller holds.
GenIds == {"g1", "g2"}

NoGen ==
    [st |-> "none", year |-> 0, k |-> 0, file |-> NoFile, pos |-> 0,
     chunks |-> << >>, advances |-> 0, printed |-> FALSE, exc |-> NoResult]

\* Variant: the file is resolved when the function is called.
EagerGenMutant(year, k) ==
    IF FileExists(year)
    THEN [NoGen EXCEPT !.st = "created", !.year = year, !.k = k, !.printed = TRUE]
    ELSE [NoGen EXCEPT !.st = "raised", !.year = year, !.k = k,
                       !.exc = Raised("FileNotFound", available_years)]

\* Calling a generator function runs none of its body.
NewGen(year, k) == [NoGen EXCEPT !.st = "created", !.year = year, !.k = k]

\* gen = loader.iter_year_chunks(year, chunksize=k)
IterYearChunks(g, year, k) ==
    /\ gens[g].st = "none"
    /\ gens' = [gens EXCEPT ![g] = NewGen(year, k)]
    /\ UNCHANGED << fs, cpu_count, available_years, scanned, pc, call, result >>
    /\ UNCHANGED loadVars

\* Variant: a reader that never yields an empty chunk.
NoEmptyChunkMutant(year, file, pos, k, first) ==
    IF pos < file.n
    THEN [stop |-> FALSE,
          rows |-> [i \in 1..(Min(pos + k, file.n) - pos) |-> << year, pos + i >>]]
    ELSE [stop |-> TRUE, rows |-> << >>]

\* The reader of pd.read_csv(..., chunksize=k) asked for its next chunk, `first`
\* telling whether it is the first one: up to k rows from where it stands; a
\* first chunk may be empty, a later one ends the iteration instead.
ReadChunk(year, file, pos, k, first) ==
    IF pos < file.n \/ first
    THEN [stop |-> FALSE,
          rows |-> [i \in 1..(Min(pos + k, file.n) - pos) |-> << year, pos + i >>]]
    ELSE [stop |-> TRUE, rows |-> << >>]

\* The generator body up to its first yield: _get_file_path, the progress
\* line, the reader opened on the file, the first chunk.
FirstAdvance(gen) ==
    LET p == GetFilePath(gen.year, available_years)
        f == fs[YearFileName(gen.year)]
        a == [gen EXCEPT !.advances = 1]
    IN  IF ~p.ok THEN [a EXCEPT !.st = "raised", !.exc = p.exc]
        ELSE IF ~f.ok
        THEN [a EXCEPT !.st = "raised", !.printed = TRUE,
                       !.exc = Raised("ParseOrTypeError", << >>)]
        ELSE LET c == ReadChunk(gen.year, f, 0, gen.k, TRUE) IN
             IF c.stop
             THEN [a EXCEPT !.st = "exhausted", !.printed = TRUE, !.file = f]
             ELSE [a EXCEPT !.st = "active", !.printed = TRUE, !.file = f,
                            !.pos = Len(c.rows), !.chunks = << c.rows >>]

\* The generator resumed after a yield: the next chunk, or the end of the loop.
LaterAdvance(gen) ==
    LET c == ReadChunk(gen.year, gen.file, gen.pos, gen.k, FALSE)
        a == [gen EXCEPT !.advances = gen.advances + 1]
    IN  IF c.stop THEN [a EXCEPT !.st = "exhausted"]
        ELSE [a EXCEPT !.pos = gen.pos + Len(c.rows),
                       !.chunks = Append(gen.chunks, c.rows)]

\* next(gen)
Advance(g) ==
    /\ gens[g].st \in {"created", "active"}
    /\ gens' = [gens EXCEPT ![g] = IF gens[g].st = "created"
                                   THEN FirstAdvance(gens[g])
                                   ELSE LaterAdvance(gens[g])]
    /\ UNCHANGED << fs, cpu_count, available_years, scanned, pc, call, result >>
    /\ UNCHANGED loadVars

\* The caller abandons the sequence: gen.close(), or the last reference dropped.
Close(g) ==
    /\ gens[g].st \in {"created", "active"}
    /\ gens' = [gens EXCEPT ![g].st = "closed"]
    /\ UNCHANGED << fs, cpu_count, available_years, scanned, pc, call, result >>
    /\ UNCHANGED loadVars

\* A finished generator object is collected.
Forget(g) ==
    /\ gens[g].st \in {"exhausted", "raised", "closed"}
    /\ gens' = [gens EXCEPT ![g] = NoGen]
    /\ UNCHANGED << fs, cpu_count, available_years, scanned, pc, call, result >>
    /\ UNCHANGED loadVars

\* ------------------------------------------------------------- the directory
\* Something outside the loader writes a file into the directory.
AddFile(nm, f) ==
    /\ Idle
    /\ ~fs[nm].present
    /\ fs' = [fs EXCEPT ![nm] = f]
    /\ UNCHANGED << cpu_count, available_years, scanned, pc, call, result, gens >>
    /\ UNCHANGED loadVars

\* Something outside the loader deletes a file.
RemoveFile(nm) ==
    /\ Idle
    /\ fs[nm].present
    /\ fs' = [fs EXCEPT ![nm] = NoFile]
    /\ UNCHANGED << cpu_count, available_years, scanned, pc, call, result, gens >>
    /\ UNCHANGED loadVars

\* Something outside the loader moves a file out of the directory, to put
\* it back later as it was.
MoveAway(nm) ==
    /\ Idle
    /\ fs[nm].present
    /\ fs' = [fs EXCEPT ![nm].present = FALSE]
    /\ UNCHANGED << cpu_count, available_years, scanned, pc, call, result, gens >>
    /\ UNCHANGED loadVars

MoveBack(nm) ==
    /\ Idle
    /\ ~fs[nm].present
    /\ fs[nm] # NoFile
    /\ fs' = [fs EXCEPT ![nm].present = TRUE]
    /\ UNCHANGED << cpu_count, available_years, scanned, pc, call, result, gens >>
    /\ UNCHANGED loadVars

\* The state after OPTDataLoader(data_dir) on a directory holding the files d.
InitOn(d) ==
    /\ fs = d
    /\ available_years = GetAvailableYears({ nm \in Names : d[nm].present })
    /\ scanned = { nm \in Names : d[nm].present }
    /\ pc = "idle"
    /\ call = NoCall
    /\ result = NoResult
    /\ path = "none"
    /\ jobs = << >>
    /\ finished = << >>
    /\ early = {}
    /\ yielded = << >>
    /\ dfs = << >>
    /\ err = NoResult
    /\ errlog = << >>
    /\ gens = [g \in GenIds |-> NoGen]

\* Directories whose files are whole: the content of a file never decides
\* whether it exists, so the directory specification keeps one content.
PlainDirs == [Names -> {NoFile, [present |-> TRUE, ok |-> TRUE, n |-> 1]}]

InitDir ==
    /\ cpu_count = 1
    /\ \E d \in PlainDirs : InitOn(d)

NextDir ==
    \/ \E nm \in Names : AddFile(nm, [present |-> TRUE, ok |-> TRUE, n |-> 1])
    \/ \E nm \in Names : RemoveFile(nm)
    \/ Construct
    \/ \E y \in Years, f \in Filters : LoadYear(y, f)
    \/ \E y \in Years \cup {0} : GetColumnNames(y)
    \/ Return

SpecDir == InitDir /\ [][NextDir]_vars

\* ------------------------------------------------------------- loads
\* Directories of year files only, each missing, unreadable or whole.
YearDirs(max) ==
    { d \in [Names -> FilesUpTo(max) \cup {NoFile}] :
        \A nm \in Names : d[nm].present => \E y \in Years : nm = YearFileName(y) }

Init ==
    /\ cpu_count \in 1..MaxCpu
    /\ \E d \in YearDirs(MaxRows) : InitOn(d)

Next ==
    \/ \E ys \in YearLists, p \in BOOLEAN, f \in Filters : LoadYears(ys, p, f)
    \/ \E p \in BOOLEAN, f \in Filters : LoadAll(p, f)
    \/ \E y \in Years, f \in Filters : LoadYear(y, f)
    \/ \E y \in Years \cup {0} : GetColumnNames(y)
    \/ \E sh \in Shapes, y \in Years, ys \in YearLists, f \in Filters, ok \in BOOLEAN :
          QuickLoad(sh, y, ys, f, ok)
    \/ \E j \in 1..Len(jobs) : FeedFail(j)
    \/ \E j \in 1..Len(jobs) : WorkerStart(j)
    \/ \E j \in 1..Len(jobs) : WorkerFinish(j)
    \/ AsCompleted
    \/ \E j \in 1..Len(jobs) : Collect(j)
    \/ Shutdown
    \/ Return

Spec == Init /\ [][Next]_vars

\* ------------------------------------------------------------- chunks
InitIter ==
    /\ cpu_count = 1
    /\ \E d \in YearDirs(MaxIterRows) : InitOn(d)

NextIter ==
    \/ \E g \in GenIds, y \in Years, k \in 1..MaxChunk : IterYearChunks(g, y, k)
    \/ \E g \in GenIds : Advance(g)
    \/ \E g \in GenIds : Close(g)
    \/ \E g \in GenIds : Forget(g)
    \/ \E y \in Years : MoveAway(YearFileName(y))
    \/ \E y \in Years : MoveBack(YearFileName(y))

SpecIter == InitIter /\ [][NextIter]_vars

\* ============================================================= claims
\* The strictly increasing sequence of the integers in S.
Ascending(S) ==
    CHOOSE q \in [1..Cardinality(S) -> S] :
        /\ Range(q) = S
        /\ \A i, k \in 1..Cardinality(S) : i < k => q[i] < q[k]

\* The years that have a file cleaned_<year>_all.csv in the directory now.
PresentYears == Ascending({ y \in Years : fs[YearFileName(y)].present })

\* The year whose file the finished call resolved.
ResolvedYear ==
    IF call.year = 0 THEN available_years[Len(available_years)] ELSE call.year

\* The finished call went through _get_file_path for ResolvedYear.
Resolving ==
    /\ pc = "done"
    /\ call.op \in {"load_year", "get_column_names"}
    /\ call.year # 0 \/ available_years # << >>

\* The number of times y stands in the sequence q.
Count(q, y) == Cardinality({ i \in 1..Len(q) : q[i] = y })

\* C3 as stated: a request for a year without a file raises FileNotFound, and
\* the years its message lists are exactly the years present in the directory
\* at the time of the request.
C3_AsStated ==
    (Resolving /\ ~fs[YearFileName(ResolvedYear)].present)
        => /\ result.kind = "raised"
           /\ result.err = "FileNotFound"
           /\ result.ctx = PresentYears

\* C3, amended: a request for a year without a file raises FileNotFound, and
\* its message lists the years found when the loader was built: in ascending
\* order, one entry per file then present whose second name token parses as an
\* integer.  They are the years present now when the directory has not changed
\* since and holds only files named cleaned_<year>_all.csv.
C3_StaleContext ==
    (Resolving /\ ~fs[YearFileName(ResolvedYear)].present)
        => /\ result.kind = "raised"
           /\ result.err = "FileNotFound"
           /\ \A i, k \in 1..Len(result.ctx) : i < k => result.ctx[i] <= result.ctx[k]
           /\ \A y \in Years :
                Count(result.ctx, y) =
                    Cardinality({ nm \in scanned : IsInt(nm[1]) /\ IntOf(nm[1]) = y })
           /\ Range(result.ctx) \subseteq Years
           /\ (/\ scanned = DirNames
               /\ \A nm \in DirNames : \E y \in Years : nm = YearFileName(y))
                  => result.ctx = PresentYears

\* A request fails on a missing file after the directory changed, and the
\* message lists a year that is not there any more or twice.
C3_Witness ==
    /\ Resolving
    /\ result.err = "FileNotFound"
    /\ scanned # DirNames
    /\ result.ctx # PresentYears
    /\ Len(result.ctx) > 1

\* ------------------------------------------------------------- multi-year loads
\* A parallel load has ended.
ParDone == pc = "done" /\ path = "par"

\* Every requested year has a file.
AllExist == \A i \in 1..Len(call.years) : fs[YearFileName(call.years[i])].present

\* What the same call returns with parallel=False.
SeqTwin == SeqLoad(call.years, call.filter, available_years, << >>)

\* The jobs whose worker raised.
FailedJobs == { j \in 1..Len(jobs) : jobs[j].out.kind = "raised" }

\* C1 as stated: for years whose files all exist and any pure filter, the
\* parallel load returns the rows of the sequential load, as a multiset and in
\* number, whatever the completion order.
C1_AsStated ==
    (ParDone /\ AllExist /\ SeqTwin.kind = "table")
        => /\ result.kind = "table"
           /\ SeqToBag(result.rows) = SeqToBag(SeqTwin.rows)
           /\ Len(result.rows) = Len(SeqTwin.rows)

\* C1, amended: the same for every pure filter that can cross the process
\* boundary (or no filter): where the sequential load returns a table the
\* parallel load returns one with the same multiset and number of rows, and
\* where the sequential load raises so does the parallel one.
C1_SameRows ==
    (ParDone /\ AllExist /\ Transferable(call.filter))
        => /\ result.kind = SeqTwin.kind
           /\ SeqToBag(result.rows) = SeqToBag(SeqTwin.rows)
           /\ Len(result.rows) = Len(SeqTwin.rows)

\* A parallel load returned the rows of the sequential load in another order.
C1_Witness ==
    /\ ParDone /\ AllExist /\ Transferable(call.filter)
    /\ call.filter = "named"
    /\ result.kind = "table"
    /\ result.rows # SeqTwin.rows
    /\ Len(result.rows) >= 2

RequestOrderRows ==
    Concat([i \in 1..Len(call.years) |->
               LoadYearOutcome(call.years[i], call.filter, available_years).rows])

\* The rows the jobs returned, taken in the order q of job indices.
RowsInOrder(q) == Concat([i \in 1..Len(q) |-> jobs[q[i]].out.rows])

\* A multi-year load has ended with a table.
LoadedTable ==
    /\ pc = "done"
    /\ call.op \in {"load_years", "load_all"}
    /\ result.kind = "table"

\* C6 as stated: the sequential load returns the per-year tables in request
\* order, the parallel load in the order in which the workers completed.
C6_AsStated ==
    /\ (LoadedTable /\ path = "seq") => result.rows = RequestOrderRows
    /\ (LoadedTable /\ path = "par") => result.rows = RowsInOrder(finished)

\* C6, amended: the sequential load returns the per-year tables in request
\* order; the parallel load returns them in the order in which the parent
\* collected the jobs: first the jobs that had finished before the collection
\* began, in any order, then the others in the order in which they completed.
C6_CollectionOrder ==
    /\ (LoadedTable /\ path = "seq") => result.rows = RequestOrderRows
    /\ (LoadedTable /\ path = "par")
          => /\ result.rows = RowsInOrder(yielded)
             /\ \A i, k \in 1..Len(yielded) :
                   (i < k /\ yielded[k] \in early) => yielded[i] \in early
             /\ \A i, k \in 1..Len(yielded) :
                   (i < k /\ yielded[i] \notin early)
                      => \E a, b \in 1..Len(finished) :
                            a < b /\ finished[a] = yielded[i] /\ finished[b] = yielded[k]

\* A parallel load returned tables in an order that is neither the request
\* order nor the completion order.
C6_Witness ==
    /\ LoadedTable /\ path = "par"
    /\ result.rows # RowsInOrder(finished)
    /\ result.rows # RequestOrderRows
    /\ result.rows = RowsInOrder(yielded)

\* C7 as stated: no table is returned while a submitted job is unfinished, and
\* once a worker failure has been observed the error reaches the caller
\* without waiting for the jobs that are left.
C7_AsStated ==
    /\ (path = "par" /\ result.kind = "table") => Unfinished = {}
    /\ (pc = "shutdown" /\ errlog # << >>) => ENABLED Shutdown

\* C7, amended: neither a table nor an error reaches the caller of a parallel
\* load while a submitted job is unfinished: a worker failure is reported when
\* it is observed, and raised to the caller after the jobs that are left have
\* finished.
C7_WaitsForAll ==
    /\ (path = "par" /\ result.kind # "none") => Unfinished = {}
    /\ (path = "par" /\ err.kind = "raised" /\ yielded # << >>)
          => errlog = << jobs[yielded[Len(yielded)]].year >>

\* An error reached the caller after a job that was still running when the
\* failure was observed had finished.
C7_Witness ==
    /\ ParDone
    /\ errlog # << >>
    /\ result.kind = "raised"
    /\ \E j \in 1..Len(jobs) : j \notin Range(yielded) /\ jobs[j].st = "done"
    /\ Len(finished) > Len(yielded)

\* C8: load_years takes the parallel branch exactly when the switch is on and
\* more than one year is requested, the other branch starts no job; at most
\* min(len(years), cpu_count) workers run at once; the job at each position is
\* for the year at that position of the list, and a parallel load that returns
\* a table has collected each position's job once.
C8_WorkerBound ==
    /\ path = "par" => (call.parallel /\ Len(call.years) > 1)
    /\ path = "seq" => (~(call.parallel /\ Len(call.years) > 1) /\ jobs = << >>)
    /\ Cardinality({ j \in 1..Len(jobs) : jobs[j].st = "running" }) <= Len(call.years)
    /\ Cardinality({ j \in 1..Len(jobs) : jobs[j].st = "running" }) <= cpu_count
    /\ Len(jobs) <= Len(call.years)
    /\ \A j \in 1..Len(jobs) : jobs[j].year = call.years[j]
    /\ (path = "par" /\ result.kind = "table")
          => /\ Len(jobs) = Len(call.years)
             /\ Len(yielded) = Len(jobs)
             /\ Range(yielded) = 1..Len(jobs)
             /\ Len(dfs) = Len(call.years)

\* Every processing unit runs a worker while a job waits for one.
C8_Witness ==
    /\ path = "par"
    /\ Cardinality(Running) = cpu_count
    /\ cpu_count < Len(call.years)
    /\ \E j \in 1..Len(jobs) : jobs[j].st = "queued"

\* C10: a loader built on a directory without year files has an empty
\* available_years; load_all, and load_years of an empty list, take the
\* sequential branch for either value of the switch and raise the error of a
\* concatenation of nothing; get_column_names() raises IndexError.
C10_EmptyDirectory ==
    /\ (\A nm \in scanned : ~IsInt(nm[1])) => available_years = << >>
    /\ (call.op = "load_all" /\ available_years = << >>) => call.years = << >>
    /\ (pc = "done" /\ call.op \in {"load_all", "load_years"} /\ call.years = << >>)
          => /\ path = "seq"
             /\ result.kind = "raised"
             /\ result.err = "NoObjectsToConcatenate"
    /\ (pc = "done" /\ call.op = "get_column_names" /\ call.year = 0
            /\ available_years = << >>)
          => /\ result.kind = "raised"
             /\ result.err = "IndexError"

\* load_all with the switch on, on a directory without year files, has raised.
C10_Witness ==
    /\ DirNames = {}
    /\ pc = "done"
    /\ call.op = "load_all"
    /\ call.via = "direct"
    /\ call.parallel
    /\ result.err = "NoObjectsToConcatenate"

\* ------------------------------------------------------------- quick_load
\* What quick_load has to do for a specifier of each shape.
QuickTarget ==
    CASE call.spec = "all" -> "load_all"
      [] call.spec = "list" -> "load_years"
      [] call.spec = "int" -> "load_year"
      [] OTHER -> "invalid"

\* quick_load has done what the loader's own operation does.
QuickMatches ==
    /\ call.op = QuickTarget
    /\ call.op = "load_all" => (call.years = available_years /\ call.parallel)
    /\ call.op = "load_years" => call.parallel
    /\ (call.op \in {"load_all", "load_years"} /\ pc = "done" /\ path = "seq")
          => result = SeqLoad(call.years, call.filter, available_years, << >>)
    /\ call.op \in {"load_all", "load_years"}
          => path = (IF Len(call.years) > 1 THEN "par" ELSE "seq")
    /\ call.op = "load_year"
          => /\ pc = "done"
             /\ result = LoadYearOutcome(call.year, call.filter, available_years)
    /\ call.op = "invalid"
          => /\ pc = "done"
             /\ path = "none"
             /\ result.kind = "raised"
             /\ result.err = "InvalidArgument"

\* C5 as stated: quick_load does load_all for 'all', load_years for a list,
\* load_year for an integer, and raises InvalidArgument for any other shape.
C5_AsStated == call.via = "quick_load" => QuickMatches

\* C5, amended: so it does when the data directory exists; when it does not,
\* quick_load raises DirectoryNotFound for every shape of specifier, the
\* unsupported ones included, and loads nothing.
C5_Dispatch ==
    call.via = "quick_load" =>
        IF call.dirOk
        THEN /\ QuickMatches
             /\ available_years = GetAvailableYears(DirNames)
        ELSE /\ pc = "done"
             /\ path = "none"
             /\ result.kind = "raised"
             /\ result.err = "DirectoryNotFound"

\* quick_load was given a float and an existing directory.
C5_Witness ==
    /\ call.via = "quick_load"
    /\ call.spec = "float"
    /\ call.dirOk
    /\ result.err = "InvalidArgument"

\* ------------------------------------------------------------- chunks
\* The generators that have begun to read their file.
Yielding == { g \in GenIds : gens[g].st \in {"active", "exhausted"} }

\* Every chunk but the last one of g holds exactly k rows.
FullButLast(g) ==
    \A i \in 1..(Len(gens[g].chunks) - 1) : Len(gens[g].chunks[i]) = gens[g].k

LastChunk(g) == gens[g].chunks[Len(gens[g].chunks)]

\* The chunks of an exhausted generator, concatenated, are what load_year of
\* its year returns while the file stands in the directory.
Reproduces(g) ==
    (gens[g].st = "exhausted" /\ fs[YearFileName(gens[g].year)].present)
        => LoadYearOutcome(gens[g].year, "none", available_years)
               = Table(Concat(gens[g].chunks))

\* The chunks yielded so far are the first rows of the file, from the first on.
FromFirstRow(g) ==
    Concat(gens[g].chunks) = [i \in 1..gens[g].pos |-> << gens[g].year, i >>]

\* C4 as stated: every chunk holds k rows except possibly the last, which
\* holds between 1 and k; the chunks concatenated are load_year(year); every
\* call starts from the first row.
C4_AsStated ==
    \A g \in Yielding :
        /\ gens[g].chunks # << >>
        /\ FullButLast(g)
        /\ Len(LastChunk(g)) \in 1..gens[g].k
        /\ Reproduces(g)
        /\ FromFirstRow(g)

\* C4, amended: every chunk holds k rows except possibly the last, which
\* holds between 0 and k, and no row only when the file has no data row: such
\* a file yields a single empty chunk.  The sequence is finite, its chunks
\* concatenated are load_year(year), and every call starts from the first row
\* wherever an earlier sequence stands.
C4_Chunks ==
    \A g \in Yielding :
        /\ gens[g].chunks # << >>
        /\ FullButLast(g)
        /\ Len(LastChunk(g)) \in 0..gens[g].k
        /\ Len(LastChunk(g)) = 0 => (Len(gens[g].chunks) = 1 /\ gens[g].file.n = 0)
        /\ Len(gens[g].chunks) <= gens[g].file.n + 1
        /\ Reproduces(g)
        /\ FromFirstRow(g)

\* One sequence over a year is exhausted, its last chunk short, while another
\* one over the same year, begun later or earlier, stands after its first chunk.
C4_Witness ==
    /\ gens["g1"].st = "exhausted"
    /\ Len(gens["g1"].chunks) = 2
    /\ Len(LastChunk("g1")) < gens["g1"].k
    /\ gens["g2"].st = "active"
    /\ gens["g2"].year = gens["g1"].year
    /\ gens["g2"].pos = 1
    /\ fs[YearFileName(gens["g1"].year)].present

\* C9: a generator that was never advanced has raised and printed nothing,
\* whether its year has a file or not, also once it is abandoned; FileNotFound
\* comes with the first advance and only then, before any progress line.
C9_Lazy ==
    \A g \in GenIds :
        /\ gens[g].advances = 0 => (gens[g].exc = NoResult /\ ~gens[g].printed)
        /\ gens[g].st = "created" => gens[g].advances = 0
        /\ gens[g].exc.err = "FileNotFound"
              => (gens[g].advances = 1 /\ ~gens[g].printed /\ gens[g].st = "raised")
        /\ (gens[g].advances >= 1 /\ gens[g].exc.err # "FileNotFound") => gens[g].printed

\* A generator for a year without a file was abandoned unadvanced while
\* another one for the same year failed on its first advance.
C9_Witness ==
    /\ gens["g1"].st = "closed"
    /\ gens["g1"].advances = 0
    /\ ~fs[YearFileName(gens["g1"].year)].present
    /\ gens["g2"].st = "raised"
    /\ gens["g2"].exc.err = "FileNotFound"
    /\ gens["g2"].year = gens["g1"].year

====
